---- MODULE Spec2Model ----
(***************************************************************************)
(* Matrix-by-vector multiply canister (src/src/main.rs).                   *)
(*                                                                         *)
(* State: the thread-local Data {a, b, out} and the host's stable memory   *)
(* (a page count and a zero-initialised byte array).  Operations: init,    *)
(* multiply_stable (wasm32, 4-lane), multiply_stable_old (scalar),         *)
(* multiply_heap (matmul::<64>) and update_empty.                          *)
(*                                                                         *)
(* i32 values are TLA+ integers in [-2^31, 2^31); every i32 operation is   *)
(* modelled with its two's-complement wraparound.  Stable memory is        *)
(* modelled byte by byte; integers go through to_le_bytes / transmute.     *)
(***************************************************************************)
EXTENDS Integers, Sequences, FiniteSets, TLC

VARIABLES
    a,            \* Data.a : Vec<i32>
    b,            \* Data.b : Vec<i32>
    out,          \* Data.out : Vec<i32>
    stable_size,  \* pages of stable memory granted by stable_grow
    stable_bytes, \* stable memory contents, byte by byte from address 0
    init_args,    \* the arguments (n, d) of the init message
    pc,           \* lifecycle of the instance
    last,         \* the exported method that ran last
    calls         \* number of update calls executed

vars == <<a, b, out, stable_size, stable_bytes, init_args, pc, last, calls>>

(***************************************************************************)
(* Bounds of the model.                                                    *)
(***************************************************************************)
\* init's n ranges over 0..MaxN and over the multiples of the heap group
\* size up to MaxGroups groups.
MaxN == 8
MaxGroups == 1
\* init's d ranges over 0..MaxD.
MaxD == 3
\* update calls per run.
MaxCalls == 2
\* inputs of the page-count computation: n in 0..PagesMaxN, d in 0..PagesMaxD.
PagesMaxN == 4
PagesMaxD == 3276

(***************************************************************************)
(* Program constants.                                                      *)
(***************************************************************************)
PAGE_SIZE == 64 * 1024
GROUP_SIZE == 64
LANES == 4
WORD == 4

MaxI32 == 2147483647
MinI32 == -2147483647 - 1

NVals == (0..MaxN) \cup {GROUP_SIZE * k : k \in 1..MaxGroups}
DVals == 0..MaxD

(***************************************************************************)
(* i32 arithmetic with wraparound (release-profile `+`, `*`, and the       *)
(* i32x4 lane operations).                                                 *)
(***************************************************************************)
WrapAdd(x, y) ==
    IF x >= 0 /\ y >= 0
    THEN IF x > MaxI32 - y THEN (x + MinI32) + (y + MinI32) ELSE x + y
    ELSE IF x < 0 /\ y < 0
         THEN IF x < MinI32 - y THEN (x - MinI32) + (y - MinI32) ELSE x + y
         ELSE x + y

WrapNeg(x) == IF x = MinI32 THEN MinI32 ELSE 0 - x

\* x * y modulo 2^32, by binary expansion of y (two's complement: the
\* expansion of a negative y ends in -1).
RECURSIVE WrapMul(_, _)
WrapMul(x, y) ==
    IF y = 0 THEN 0
    ELSE IF y = -1 THEN WrapNeg(x)
    ELSE LET h == WrapMul(x, y \div 2)
             dbl == WrapAdd(h, h)
         IN  IF y % 2 = 1 THEN WrapAdd(dbl, x) ELSE dbl

(***************************************************************************)
(* Byte encodings.                                                         *)
(***************************************************************************)
\* faulty variant of ToLeBytes: the bytes in big-endian order (to_be_bytes)
ToBeBytes(v) ==
    << (v \div 16777216) % 256, (v \div 65536) % 256, (v \div 256) % 256, v % 256 >>

\* i32::to_le_bytes, and the low four bytes of a wider unsigned value.
ToLeBytes(v) ==
    << v % 256, (v \div 256) % 256, (v \div 65536) % 256, (v \div 16777216) % 256 >>

\* [u8; 4] reinterpreted as i32 on a little-endian target (transmute,
\* v128 lane extraction).
FromLeBytes(bs) ==
    bs[1] + 256 * bs[2] + 65536 * bs[3]
      + 16777216 * (IF bs[4] >= 128 THEN bs[4] - 256 ELSE bs[4])

\* `i as u32 as i32`
AsU32AsI32(i) == FromLeBytes(ToLeBytes(i))

(***************************************************************************)
(* Stable memory.                                                          *)
(***************************************************************************)
StableCapacity(size) == size * PAGE_SIZE

\* an access of len bytes at offset is inside the granted pages
InBounds(size, offset, len) == offset + len <= StableCapacity(size)

\* Contents are a sequence of bytes, address x at index x + 1; the bytes
\* past its end have never been written and read as 0.
ByteAt(mem, addr) == IF addr < Len(mem) THEN mem[addr + 1] ELSE 0

\* stable_read(offset, &mut buf) with buf.len() = len
StableRead(mem, offset, len) == [k \in 1..len |-> ByteAt(mem, offset + k - 1)]

\* stable_write(offset, buf): buf replaces the bytes at offset; a write past
\* the end of the contents fills the gap with the zeros that were there
StableWrite(mem, offset, buf) ==
    LET top == IF Len(mem) > offset + Len(buf) THEN Len(mem) ELSE offset + Len(buf)
    IN  [x \in 1..top |->
            IF x > offset /\ x <= offset + Len(buf) THEN buf[x - offset]
            ELSE ByteAt(mem, x - 1)]

\* the i32 stored little-endian at addr
WordAt(mem, addr) == FromLeBytes(StableRead(mem, addr, WORD))

(***************************************************************************)
(* Address layout (multiply_stable, multiply_stable_old, init).            *)
(***************************************************************************)
AAddr == 0
BAddr(n, d) == n * d * 4
OutAddr(n, d) == (n * d + n) * 4

\* faulty variant of StablePages: the quotient without the extra page
StablePagesFloor(n, d) == ((n * d + n + d) * 4) \div PAGE_SIZE

\* init: ((n * d + n + d) * 4) / (64 * 1024) + 1
StablePages(n, d) == ((n * d + n + d) * 4) \div PAGE_SIZE + 1

(***************************************************************************)
(* init(n, d): the values and the stable-memory mirror.                    *)
(***************************************************************************)
\* for i in 0..count { v.push(i as u32 as i32) }
PushIota(v, count) == v \o [i \in 1..count |-> AsU32AsI32(i - 1)]

\* the bytes of v[0..count], each element by to_le_bytes, in index order
LeBytesOf(v, count) ==
    [x \in 1..(count * WORD) |-> ToLeBytes(v[((x - 1) \div WORD) + 1])[((x - 1) % WORD) + 1]]

\* for i in 0..count { stable_write(base + i * 4, &v[i].to_le_bytes()) }
\* The writes are adjacent and in index order: together they are one write of
\* the elements' bytes at base.
WriteAll(mem, base, v, count) ==
    IF count = 0 THEN mem ELSE StableWrite(mem, base, LeBytesOf(v, count))

\* Data after the pushes and the assignment of out
InitA(n, d) == PushIota(a, n * d)
InitB(n) == PushIota(b, n)
InitOut(d) == [i \in 1..d |-> 0]

\* stable memory after the two write loops over data.a and data.b
InitMirror(mem, va, vb, n, d) ==
    WriteAll(WriteAll(mem, AAddr, va, n * d), BAddr(n, d), vb, n)

(***************************************************************************)
(* Addresses the store engines touch.                                      *)
(***************************************************************************)
\* (0..n).step_by(4)
Steps(n) == {j \in 0..(n - 1) : j % LANES = 0}

\* a_addr + in_ + j * 4, with in_ = i * n * 4
AGroupAddr(n, i, j) == AAddr + i * n * 4 + j * 4
\* faulty variant of BGroupAddr: the element index used as a byte offset
BGroupAddrUnscaled(n, d, j) == BAddr(n, d) + j

\* b_addr + j * 4
BGroupAddr(n, d, j) == BAddr(n, d) + j * 4
\* faulty variant of OutWordAddr: the result written at b_addr instead of out_addr
OutWordAddrInB(n, d, i) == BAddr(n, d) + i * 4

\* out_addr + i * 4
OutWordAddr(n, d, i) == OutAddr(n, d) + i * 4

GROUP_BYTES == 16

\* every stable_read / stable_write of one engine call is inside the pages
EngineInBounds(size, n, d) ==
    \A i \in 0..(d - 1) :
        /\ InBounds(size, OutWordAddr(n, d, i), WORD)
        /\ \A j \in Steps(n) :
            /\ InBounds(size, AGroupAddr(n, i, j), GROUP_BYTES)
            /\ InBounds(size, BGroupAddr(n, d, j), GROUP_BYTES)

(***************************************************************************)
(* multiply_stable_old: scalar store engine.                               *)
(***************************************************************************)
\* transmute::<[u8; 16], [i32; 4]> on a little-endian target
Transmute(bytes) ==
    [k \in 1..LANES |-> FromLeBytes([m \in 1..WORD |-> bytes[(k - 1) * WORD + m]])]

\* one pass of the j loop body: the two reads and the 4-element scalar loop
OldGroup(mem, addrA, addrB) ==
    LET a_group == Transmute(StableRead(mem, addrA, GROUP_BYTES))
        b_group == Transmute(StableRead(mem, addrB, GROUP_BYTES))
        i0 == WrapAdd(0, WrapMul(a_group[1], b_group[1]))
        i1 == WrapAdd(i0, WrapMul(a_group[2], b_group[2]))
        i2 == WrapAdd(i1, WrapMul(a_group[3], b_group[3]))
    IN  WrapAdd(i2, WrapMul(a_group[4], b_group[4]))

\* the j loop of row i, from j on, with val accumulated so far
RECURSIVE OldRow(_, _, _, _, _, _)
OldRow(mem, n, d, i, j, val) ==
    IF j >= n THEN val
    ELSE OldRow(mem, n, d, i, j + LANES,
                WrapAdd(val, OldGroup(mem, AGroupAddr(n, i, j), BGroupAddr(n, d, j))))

\* the i loop from row i on: each row's value is written before the next row reads
RECURSIVE OldRows(_, _, _, _)
OldRows(mem, n, d, i) ==
    IF i >= d THEN mem
    ELSE OldRows(StableWrite(mem, OutWordAddr(n, d, i),
                             ToLeBytes(OldRow(mem, n, d, i, 0, 0))),
                 n, d, i + 1)

\* stable memory after multiply_stable_old
StableOldResult(mem, n, d) == OldRows(mem, n, d, 0)

(***************************************************************************)
(* multiply_stable: 4-lane store engine (wasm32).                          *)
(***************************************************************************)
\* ic0::stable_read_v128 viewed as i32x4: lane k is the k-th little-endian word
StableReadV128(mem, addr) ==
    [k \in 1..LANES |-> WordAt(mem, addr + (k - 1) * WORD)]

\* ic0::stable_write_i32
StableWriteI32(mem, addr, val) == StableWrite(mem, addr, ToLeBytes(val))

I32x4Mul(x, y) == [k \in 1..LANES |-> WrapMul(x[k], y[k])]
I32x4Add(x, y) == [k \in 1..LANES |-> WrapAdd(x[k], y[k])]

\* the j loop of row i, from j on, with the lane accumulator vals
RECURSIVE VecRow(_, _, _, _, _, _)
VecRow(mem, n, d, i, j, vals) ==
    IF j >= n THEN vals
    ELSE VecRow(mem, n, d, i, j + LANES,
                I32x4Add(vals, I32x4Mul(StableReadV128(mem, AGroupAddr(n, i, j)),
                                        StableReadV128(mem, BGroupAddr(n, d, j)))))

\* faulty variant of ReduceLanes: lane 3 left out of the reduction
ReduceThreeLanes(vals) == WrapAdd(WrapAdd(vals[1], vals[2]), vals[3])

\* lane 0 + lane 1 + lane 2 + lane 3
ReduceLanes(vals) == WrapAdd(WrapAdd(WrapAdd(vals[1], vals[2]), vals[3]), vals[4])

RECURSIVE VecRows(_, _, _, _)
VecRows(mem, n, d, i) ==
    IF i >= d THEN mem
    ELSE VecRows(StableWriteI32(mem, OutWordAddr(n, d, i),
                                ReduceLanes(VecRow(mem, n, d, i, 0, <<0, 0, 0, 0>>))),
                 n, d, i + 1)

\* stable memory after multiply_stable
StableVecResult(mem, n, d) == VecRows(mem, n, d, 0)

(***************************************************************************)
(* matmul::<GROUP_SIZE>: heap engine.                                      *)
(***************************************************************************)
\* every raw-pointer read *a_group.add(k), *b_group.add(k) is inside its Vec
HeapReadsInBounds(va, vb, n, d, group_size) ==
    \A i \in 0..(d - 1) :
        \A j \in {x \in 0..(n - 1) : x % group_size = 0} :
            \A k \in 0..(group_size - 1) :
                j + k < Len(vb) /\ i * n + j + k < Len(va)

\* the inner loop's sum over the elements lo..hi-1 of the group at j:
\*   for i in lo..hi { ival += *a_group.add(i) * *b_group.add(i) }
\* Wrapping addition is associative, so the halves are summed separately
\* (which keeps the evaluation shallow) and then added.
RECURSIVE HeapGroupSum(_, _, _, _, _, _)
HeapGroupSum(va, vb, in_, j, lo, hi) ==
    IF hi <= lo THEN 0
    ELSE IF hi = lo + 1 THEN WrapMul(va[in_ + j + lo + 1], vb[j + lo + 1])
    ELSE WrapAdd(HeapGroupSum(va, vb, in_, j, lo, (lo + hi) \div 2),
                 HeapGroupSum(va, vb, in_, j, (lo + hi) \div 2, hi))

\* faulty variant of HeapGroup: the inner loop stops one element short
HeapGroupShort(va, vb, in_, j, group_size) ==
    WrapAdd(0, HeapGroupSum(va, vb, in_, j, 0, group_size - 1))

\* ival of the group at j: let mut ival = 0, then the inner loop
HeapGroup(va, vb, in_, j, group_size) ==
    WrapAdd(0, HeapGroupSum(va, vb, in_, j, 0, group_size))

\* faulty variant of HeapRow: in_ = i instead of i * n
RECURSIVE HeapRowNoStride(_, _, _, _, _, _, _)
HeapRowNoStride(va, vb, n, i, j, group_size, val) ==
    IF j >= n THEN val
    ELSE HeapRowNoStride(va, vb, n, i, j + group_size, group_size,
                         WrapAdd(val, WrapAdd(0, HeapGroupSum(va, vb, i, j, 0, group_size))))

\* the j loop of row i, from j on, with val so far
RECURSIVE HeapRow(_, _, _, _, _, _, _)
HeapRow(va, vb, n, i, j, group_size, val) ==
    IF j >= n THEN val
    ELSE HeapRow(va, vb, n, i, j + group_size, group_size,
                 WrapAdd(val, HeapGroup(va, vb, i * n, j, group_size)))

\* Data.out after matmul, all reads being in bounds
MatmulOut(va, vb, n, d, group_size) ==
    [i \in 1..d |-> HeapRow(va, vb, n, i - 1, 0, group_size, 0)]

\* values an out-of-bounds raw-pointer read can make a row come out as
OobVals == {-1, 7}

\* the outcomes of matmul::<group_size>(): the computed rows; or, when a read
\* leaves its Vec (undefined behaviour), any rows or a trap that changes nothing
MatmulOutcomes(va, vb, vout, group_size) ==
    IF HeapReadsInBounds(va, vb, Len(vb), Len(vout), group_size)
    THEN {MatmulOut(va, vb, Len(vb), Len(vout), group_size)}
    ELSE {vout} \cup [1..Len(vout) -> OobVals]

(***************************************************************************)
(* The state machine.                                                      *)
(***************************************************************************)
EmptyMem == <<>>

\* state after construction of DATA, with the init message pending
InitWith(ns, ds) ==
    /\ a = <<>>
    /\ b = <<>>
    /\ out = <<>>
    /\ stable_size = 0
    /\ stable_bytes = EmptyMem
    /\ init_args \in [n : ns, d : ds]
    /\ pc = "uninit"
    /\ last = "none"
    /\ calls = 0

Init == InitWith(NVals, DVals)

\* init(n, d), stable_grow granted
InitGranted ==
    /\ pc = "uninit"
    /\ a' = InitA(init_args.n, init_args.d)
    /\ b' = InitB(init_args.n)
    /\ out' = InitOut(init_args.d)
    /\ stable_size' = stable_size + StablePages(init_args.n, init_args.d)
    /\ stable_bytes' = InitMirror(stable_bytes, a', b', init_args.n, init_args.d)
    /\ pc' = "ready"
    /\ last' = "init"
    /\ UNCHANGED <<init_args, calls>>

\* init(n, d), stable_grow denied: unwrap() panics after Data was filled.
\* Unwinding keeps what was stored in DATA; a trapping build has the host
\* discard the message's changes.
InitDenied ==
    /\ pc = "uninit"
    /\ \E unwinds \in BOOLEAN :
          IF unwinds
          THEN /\ a' = InitA(init_args.n, init_args.d)
               /\ b' = InitB(init_args.n)
               /\ out' = InitOut(init_args.d)
          ELSE UNCHANGED <<a, b, out>>
    /\ pc' = "failed"
    /\ last' = "init"
    /\ UNCHANGED <<stable_size, stable_bytes, init_args, calls>>

init == InitGranted \/ InitDenied

\* a store engine call: result is the engine's memory, or a trap (nothing
\* changes) when an access is outside the granted pages
StoreEngineStep(result, name) ==
    /\ pc = "ready"
    /\ calls < MaxCalls
    /\ stable_bytes' = IF EngineInBounds(stable_size, Len(b), Len(out))
                       THEN result ELSE stable_bytes
    /\ last' = name
    /\ calls' = calls + 1
    /\ UNCHANGED <<a, b, out, stable_size, init_args, pc>>

multiply_stable ==
    StoreEngineStep(StableVecResult(stable_bytes, Len(b), Len(out)), "multiply_stable")

multiply_stable_old ==
    StoreEngineStep(StableOldResult(stable_bytes, Len(b), Len(out)), "multiply_stable_old")

matmul(group_size) ==
    /\ pc = "ready"
    /\ calls < MaxCalls
    /\ out' \in MatmulOutcomes(a, b, out, group_size)
    /\ last' = "multiply_heap"
    /\ calls' = calls + 1
    /\ UNCHANGED <<a, b, stable_size, stable_bytes, init_args, pc>>

multiply_heap == matmul(GROUP_SIZE)

update_empty ==
    /\ pc = "ready"
    /\ calls < MaxCalls
    /\ last' = "update_empty"
    /\ calls' = calls + 1
    /\ UNCHANGED <<a, b, out, stable_size, stable_bytes, init_args, pc>>

Next ==
    \/ init
    \/ multiply_stable
    \/ multiply_stable_old
    \/ multiply_heap
    \/ update_empty

Spec == Init /\ [][Next]_vars

\* the calls that touch stable memory only
NextStore ==
    \/ init
    \/ multiply_stable
    \/ multiply_stable_old
    \/ update_empty

SpecStore == Init /\ [][NextStore]_vars

(***************************************************************************)
(* The page-count computation on its own, over a range of (n, d) that      *)
(* reaches a byte size of exactly one page.                                *)
(***************************************************************************)
InitPages == InitWith(0..PagesMaxN, 0..PagesMaxD)

\* the stable_grow request of init
GrowRequest ==
    /\ pc = "uninit"
    /\ stable_size' = stable_size + StablePages(init_args.n, init_args.d)
    /\ pc' = "grown"
    /\ UNCHANGED <<a, b, out, stable_bytes, init_args, last, calls>>

NextPages == GrowRequest

SpecPages == InitPages /\ [][NextPages]_vars

(***************************************************************************)
(* Vocabulary of the properties.                                           *)
(***************************************************************************)
\* n and d as every engine recovers them: data.b.len(), data.out.len()
DataN == Len(b)
DataD == Len(out)

\* the d words of the Out region of mem
OutWords(mem, n, d) == [i \in 1..d |-> WordAt(mem, OutWordAddr(n, d, i - 1))]

\* the step is a call of the exported method `name`
Ran(name) == calls' = calls + 1 /\ last' = name

StoreEngineCall == Ran("multiply_stable") \/ Ran("multiply_stable_old")

\* x reduced modulo 2^32 and read as a signed 32-bit value
ToI32(x) == FromLeBytes(<< x % 256, (x \div 256) % 256, (x \div 65536) % 256,
                           (x \div 16777216) % 256 >>)

\* sum over j in lo..hi-1 of A[i*n + j] * B[j], in unbounded integers
RECURSIVE ExactDot(_, _, _, _, _, _)
ExactDot(va, vb, n, i, lo, hi) ==
    IF hi <= lo THEN 0
    ELSE IF hi = lo + 1 THEN va[i * n + lo + 1] * vb[lo + 1]
    ELSE ExactDot(va, vb, n, i, lo, (lo + hi) \div 2)
           + ExactDot(va, vb, n, i, (lo + hi) \div 2, hi)

(***************************************************************************)
(* C1.  For n a multiple of 4, a call of the vectorized store engine       *)
(* (multiply_stable) leaves in the Out region exactly the bytes the scalar *)
(* store engine (multiply_stable_old) leaves there when run from the same  *)
(* state, and a call of the scalar engine leaves the bytes the vectorized  *)
(* one would.                                                              *)
(***************************************************************************)
OutBytes(mem, n, d) == StableRead(mem, OutAddr(n, d), d * WORD)

C1_StoreEnginesAgree ==
    [][ (DataN % LANES = 0) =>
          /\ Ran("multiply_stable") =>
               OutBytes(stable_bytes', DataN, DataD)
                 = OutBytes(StableOldResult(stable_bytes, DataN, DataD), DataN, DataD)
          /\ Ran("multiply_stable_old") =>
               OutBytes(stable_bytes', DataN, DataD)
                 = OutBytes(StableVecResult(stable_bytes, DataN, DataD), DataN, DataD)
      ]_vars

\* the vectorized engine has run on an 8 x 3 instance and Out holds the
\* three dot products, which are also what the scalar engine computes
C1_Witness ==
    /\ last = "multiply_stable"
    /\ DataN = 8 /\ DataD = 3
    /\ OutWords(stable_bytes, DataN, DataD) = <<140, 364, 588>>
    /\ OutWords(StableOldResult(stable_bytes, DataN, DataD), DataN, DataD)
         = <<140, 364, 588>>

(***************************************************************************)
(* C2.  For n a multiple of the heap group size (64), the values           *)
(* multiply_heap writes into Data.out equal, element for element, the      *)
(* words either store engine writes into the Out region of stable memory.  *)
(***************************************************************************)
C2_HeapAgreesWithStore ==
    [][ (Ran("multiply_heap") /\ DataN % GROUP_SIZE = 0) =>
          /\ out' = OutWords(StableOldResult(stable_bytes, DataN, DataD), DataN, DataD)
          /\ out' = OutWords(StableVecResult(stable_bytes, DataN, DataD), DataN, DataD)
      ]_vars

\* heap and store engines have both run on a 64 x 2 instance and agree on
\* non-zero results
C2_Witness ==
    /\ last = "multiply_heap"
    /\ DataN = GROUP_SIZE /\ DataD = 2
    /\ out[1] # 0 /\ out[2] # out[1]
    /\ out = OutWords(stable_bytes, DataN, DataD)

(***************************************************************************)
(* C3.  Running the same multiply engine a second time, without            *)
(* re-initializing, yields the same Out as the first run, for any          *)
(* initialized (n, d) and any of the three engines.                        *)
(***************************************************************************)
C3_SecondRunSameOut ==
    [][ /\ (Ran("multiply_stable_old") /\ last = "multiply_stable_old") =>
             OutWords(stable_bytes', DataN, DataD) = OutWords(stable_bytes, DataN, DataD)
        /\ (Ran("multiply_stable") /\ last = "multiply_stable") =>
             OutWords(stable_bytes', DataN, DataD) = OutWords(stable_bytes, DataN, DataD)
        /\ (Ran("multiply_heap") /\ last = "multiply_heap") => out' = out
      ]_vars

(***************************************************************************)
(* C4.  The page count init requests is the smallest p >= 1 with           *)
(* p * 65536 >= (n*d + n + d) * 4; at an exact non-zero multiple of 65536  *)
(* it is the quotient, not one page more.                                  *)
(***************************************************************************)
MinimalPages(bytes) ==
    CHOOSE p \in 1..(bytes \div PAGE_SIZE + 1) :
        /\ p * PAGE_SIZE >= bytes
        /\ \A q \in 1..(p - 1) : q * PAGE_SIZE < bytes

C4_MinimalPageCount ==
    pc = "grown" =>
        stable_size = MinimalPages((init_args.n * init_args.d + init_args.n + init_args.d) * 4)

LeByte(v, k) == (v \div (256 ^ k)) % 256

ARegion(n, d) == 0..(n * d * 4 - 1)
BRegion(n, d) == (n * d * 4)..((n * d + n) * 4 - 1)
OutRegion(n, d) == ((n * d + n) * 4)..((n * d + n + d) * 4 - 1)

C6_InitMirrors ==
    pc = "ready" =>
        /\ DataN = init_args.n /\ DataD = init_args.d
        /\ Len(a) = DataN * DataD
        /\ \A i \in 0..(DataN * DataD - 1) :
              /\ a[i + 1] = i
              /\ \A k \in 0..3 : ByteAt(stable_bytes, 4 * i + k) = LeByte(i, k)
        /\ \A j \in 0..(DataN - 1) :
              /\ b[j + 1] = j
              /\ \A k \in 0..3 :
                    ByteAt(stable_bytes, DataN * DataD * 4 + 4 * j + k) = LeByte(j, k)
        /\ ARegion(DataN, DataD) \cap BRegion(DataN, DataD) = {}
        /\ ARegion(DataN, DataD) \cap OutRegion(DataN, DataD) = {}
        /\ BRegion(DataN, DataD) \cap OutRegion(DataN, DataD) = {}
        /\ last = "init" => out = [i \in 1..DataD |-> 0]

\* init(64, 3) has succeeded: A[191] = 191 sits at byte 764 and B[63] = 63
\* at byte 1020, each in the low byte of its word
C6_Witness ==
    /\ pc = "ready" /\ last = "init"
    /\ DataN = GROUP_SIZE /\ DataD = 3
    /\ StableRead(stable_bytes, 764, 4) = <<191, 0, 0, 0>>
    /\ StableRead(stable_bytes, 1020, 4) = <<63, 0, 0, 0>>

(***************************************************************************)
(* C7.  If stable_grow denies the request of init(n, d), no byte of stable *)
(* memory is written and Data (a, b and out) is left exactly as it was     *)
(* before the call.                                                        *)
(***************************************************************************)
C7_DeniedInitChangesNothing ==
    pc = "failed" =>
        /\ stable_bytes = EmptyMem /\ stable_size = 0
        /\ a = <<>> /\ b = <<>> /\ out = <<>>

RECURSIVE WordDot(_, _, _, _)
WordDot(mem, wa, wb, count) ==
    IF count <= 0 THEN 0
    ELSE WrapAdd(WordDot(mem, wa, wb, count - 1),
                 WrapMul(WordAt(mem, 4 * (wa + count - 1)),
                         WordAt(mem, 4 * (wb + count - 1))))

\* the Out words of rows i.. in order, each read from mem as left by the rows before
RECURSIVE WholeBatchRows(_, _, _, _)
WholeBatchRows(mem, n, d, i) ==
    IF i >= d THEN <<>>
    ELSE LET val == WordDot(mem, i * n, n * d, 4 * ((n + 3) \div 4))
         IN  <<val>> \o WholeBatchRows(StableWrite(mem, (n * d + n + i) * 4,
                                                   << LeByte(val, 0), LeByte(val, 1),
                                                      LeByte(val, 2), LeByte(val, 3) >>),
                                       n, d, i + 1)

SameOutside(mem1, mem2, region) ==
    \A x \in (0..(Len(mem1) + Len(mem2))) \ region : ByteAt(mem1, x) = ByteAt(mem2, x)

C9_Frames ==
    [][ /\ Ran("multiply_heap") =>
             /\ stable_bytes' = stable_bytes /\ stable_size' = stable_size
             /\ a' = a /\ b' = b
        /\ StoreEngineCall =>
             /\ SameOutside(stable_bytes', stable_bytes, OutRegion(DataN, DataD))
             /\ stable_size' = stable_size
             /\ a' = a /\ b' = b /\ out' = out
      ]_vars

\* both kinds of engine have run on a 64 x 2 instance: both Outs are
\* filled, and the first and last mirrored words are still in place
C9_Witness ==
    /\ last = "multiply_heap" /\ calls = 2
    /\ DataN = GROUP_SIZE /\ DataD = 2
    /\ out = <<85344, 214368>>
    /\ OutWords(stable_bytes, DataN, DataD) = <<85344, 214368>>
    /\ WordAt(stable_bytes, 4 * 127) = 127
    /\ WordAt(stable_bytes, BAddr(DataN, DataD) + 4 * 63) = 63

(***************************************************************************)
(* C10.  After a successful init(n, d) with n a multiple of 4, every       *)
(* access of a store engine stays inside its region and inside the pages   *)
(* granted: each 16-byte read of A within [0, n*d*4), each 16-byte read of *)
(* B within [n*d*4, (n*d + n)*4), each 4-byte write within                 *)
(* [(n*d + n)*4, (n*d + n + d)*4), all below stable_size * 65536.          *)
(***************************************************************************)
Within(addr, len, region) == \A x \in addr..(addr + len - 1) : x \in region

C10_AccessesInRegion ==
    (pc = "ready" /\ DataN % LANES = 0) =>
        \A i \in 0..(DataD - 1) :
            /\ Within(OutWordAddr(DataN, DataD, i), WORD, OutRegion(DataN, DataD))
            /\ OutWordAddr(DataN, DataD, i) + WORD <= stable_size * PAGE_SIZE
            /\ \A j \in Steps(DataN) :
                  /\ Within(AGroupAddr(DataN, i, j), GROUP_BYTES, ARegion(DataN, DataD))
                  /\ Within(BGroupAddr(DataN, DataD, j), GROUP_BYTES, BRegion(DataN, DataD))
                  /\ AGroupAddr(DataN, i, j) + GROUP_BYTES <= stable_size * PAGE_SIZE
                  /\ BGroupAddr(DataN, DataD, j) + GROUP_BYTES <= stable_size * PAGE_SIZE

\* a store engine has run on an 8 x 3 instance, whose last A read ends at
\* byte 96 = B_addr and whose last B read ends at byte 128 = Out_addr
C10_Witness ==
    /\ pc = "ready" /\ last = "multiply_stable"
    /\ DataN = 8 /\ DataD = 3
    /\ AGroupAddr(DataN, 2, 4) + GROUP_BYTES = BAddr(DataN, DataD)
    /\ BGroupAddr(DataN, DataD, 4) + GROUP_BYTES = OutAddr(DataN, DataD)

====
